---- MODULE Spec2Model ----
(***************************************************************************)
(* A model of the coverage tracer (coverage/pytracer.py), of the test      *)
(* attribution records it merges (coverage/test_finder.py) and of the      *)
(* combining of stored datasets (coverage/data.py).                        *)
(*                                                                         *)
(* Python values are encoded as follows.                                   *)
(*   - a dict whose values are all None (a per-file line or arc map) is    *)
(*     the set of its keys; a line key n is the tuple <<n>> and an arc key *)
(*     is the pair <<from, to>>;                                           *)
(*   - a reference to a per-file map (cur_file_dict, ...) is the file's    *)
(*     trace name, "None" is None and "init" is the object the constructor *)
(*     stored ([] or {});                                                  *)
(*   - a TestFinderResult is an object: an index into heap, so that two    *)
(*     keys can hold the same object;                                      *)
(*   - a frame is identified by its depth on the interpreter's stack.      *)
(***************************************************************************)
EXTENDS Integers, Sequences, FiniteSets, TLC

VARIABLES
    tracer,             \* the PyTracer instance: a record of its fields
    should_trace_cache, \* filename -> disposition, shared with the collector
    heap,               \* the TestFinderResult objects referenced by callers_data
    settrace,           \* the interpreter's registered trace function
    warnings,           \* the number of warnings passed to self.warn
    frames,             \* the interpreter's stack of running frames
    nevents,            \* the number of events delivered so far
    last,               \* the last event delivered and what _trace returned
    reported,           \* trace name -> lines reported by line events of its frames
    active_at,          \* trace name -> key -> tests active when it was recorded
    scenario,           \* how far the events so far follow the missed-return scenario
    nstops,             \* the number of calls of stop so far
    maxev,              \* the event budget of this run
    asked,              \* filename -> the number of calls of should_trace for it
    file_callers,       \* a per-file attribution map that results are merged into
    merges,             \* the run of merges into one key of file_callers
    cov,                \* the CoverageData instance: lines, arcs and callers
    inputs,             \* the stored datasets that combine_parallel_data finds
    combined,           \* the run of combine_parallel_data, once it has run
    handling,           \* thread -> where its tracer is in lines 108-112 of a call
    finder              \* a call of _is_test_method: its arguments and its result

vars == <<tracer, should_trace_cache, heap, settrace, warnings, frames,
          nevents, last, reported, active_at, scenario, nstops, maxev, asked,
          file_callers, merges, cov, inputs, combined, handling, finder>>

\* The state outside the tracer.
dataVars == <<file_callers, merges, cov, inputs, combined, handling, finder>>

\* The state of the tracer and of the interpreter, without the objects.
tracerVars == <<tracer, should_trace_cache, settrace, warnings, frames, nevents,
                last, reported, active_at, scenario, nstops, maxev, asked>>

----------------------------------------------------------------------------
(* Bounds of the model. *)

MaxDepth == 3
MaxEvents == 6
MaxLifeEvents == 3
MaxStops == 2
MaxMerges == 3
MaxSharedCalls == 2
MaxObjects == 3
NDatasets == 3

----------------------------------------------------------------------------
(* The traced program: code objects, files and the collector's classifier. *)

Codes == {"test_one", "foo", "tmpl", "lib"}

CoFilename(c) ==
    CASE c = "test_one" -> "tests.py"
      [] c = "foo"      -> "mod.py"
      [] c = "tmpl"     -> "page.html"
      [] c = "lib"      -> "lib.py"

CoFirstLineno(c) ==
    CASE c = "test_one" -> 3
      [] c = "foo"      -> 5
      [] c = "tmpl"     -> 7
      [] c = "lib"      -> 9

\* The line numbers frame.f_lineno takes at a line event.
Lines == {10, 12}

\* What the plugin's line_number_range may answer for a frame at line n: no
\* line, the line 0 of a template, or the lines n..n+1.
PluginRanges(n) == {<<-1, -1>>, <<0, 0>>, <<n, n + 1>>}

\* should_trace(filename, frame): the disposition of a file.
ShouldTrace(filename) ==
    CASE filename = "tests.py"  -> [trace |-> TRUE, source_filename |-> "tests.py", file_tracer |-> "None"]
      [] filename = "mod.py"    -> [trace |-> TRUE, source_filename |-> "mod.py", file_tracer |-> "None"]
      [] filename = "page.html" -> [trace |-> TRUE, source_filename |-> "page.html", file_tracer |-> "plug"]
      [] filename = "lib.py"    -> [trace |-> FALSE, source_filename |-> "None", file_tracer |-> "None"]

NoFrame == 0

\* A frame of the traced program; its functions take no arguments.
Frame(id, code, lineno) ==
    [id |-> id, f_code |-> code, f_back |-> id - 1, f_lineno |-> lineno,
     first_arg |-> "None"]

----------------------------------------------------------------------------
(* Dicts and objects. *)

Put(d, k, v) == [x \in (DOMAIN d) \cup {k} |-> IF x = k THEN v ELSE d[x]]

Del(d, k) == [x \in (DOMAIN d) \ {k} |-> d[x]]

EmptyDict == << >>

LineKey(n) == <<n>>

ArcKey(a, b) == <<a, b>>

\* Python's truth value of a key: the line number 0 is false, a pair is true.
KeyIsFalse(k) == Len(k) = 1 /\ k[1] = 0

SeqToSet(s) == {s[i] : i \in 1..Len(s)}

\* The characters of the strings the finder searches.
Chars(str) ==
    CASE str = "test" -> <<"t", "e", "s", "t">>
      [] str = "test_one" -> <<"t", "e", "s", "t", "_", "o", "n", "e">>
      [] str = "run_test_two" -> <<"r", "u", "n", "_", "t", "e", "s", "t", "_", "t", "w", "o">>
      [] str = "testing" -> <<"t", "e", "s", "t", "i", "n", "g">>
      [] str = "foo" -> <<"f", "o", "o">>
      [] str = "tmpl" -> <<"t", "m", "p", "l">>
      [] str = "lib" -> <<"l", "i", "b">>
      [] str = "tests.py" -> <<"t", "e", "s", "t", "s", ".", "p", "y">>
      [] str = "mod.py" -> <<"m", "o", "d", ".", "p", "y">>
      [] str = "page.html" -> <<"p", "a", "g", "e", ".", "h", "t", "m", "l">>
      [] str = "lib.py" -> <<"l", "i", "b", ".", "p", "y">>
      [] str = "/lib/unittest/case.py" -> <<"/", "l", "i", "b", "/", "u", "n", "i", "t", "t", "e", "s", "t", "/", "c", "a", "s", "e", ".", "p", "y">>
      [] str = "/proj/unittest_x/t.py" -> <<"/", "p", "r", "o", "j", "/", "u", "n", "i", "t", "t", "e", "s", "t", "_", "x", "/", "t", ".", "p", "y">>
      [] str = "/proj/t.py" -> <<"/", "p", "r", "o", "j", "/", "t", ".", "p", "y">>

Least(S) == CHOOSE x \in S : \A y \in S : x <= y

\* The indices (from 0) at which sub occurs in s.
Occurrences(sub, s) ==
    {i \in 0..(Len(s) - Len(sub)) : SubSeq(s, i + 1, i + Len(sub)) = sub}

\* str.find(sub): the lowest index at which sub occurs in s, or -1.
Find(sub, s) ==
    IF Occurrences(sub, s) = {} THEN -1 ELSE Least(Occurrences(sub, s))

----------------------------------------------------------------------------
(* coverage/test_finder.py *)

NoRef == 0

\* TestFinderResult.__init__: test_methods or set()
TestFinderResult(line_id, test_methods) ==
    [line_id |-> line_id, test_methods |-> test_methods]

\* TestFinderResult.has_tests
HasTests(r) == r.test_methods /= {} /\ Cardinality(r.test_methods) /= 0

\* A merge that replaces the tests of the object instead of adding to them.
MergeOverwrite(hp, self, other) ==
    IF hp[self].line_id /= other.line_id
    THEN [heap |-> hp, exc |-> "ValueError"]
    ELSE [heap |-> [hp EXCEPT ![self].test_methods = other.test_methods],
          exc |-> ""]

\* TestFinderResult.merge on the object hp[self]; other is an object's value.
Merge(hp, self, other) ==
    IF hp[self].line_id /= other.line_id
    THEN [heap |-> hp, exc |-> "ValueError"]
    ELSE [heap |-> [hp EXCEPT ![self].test_methods = @ \cup other.test_methods],
          exc |-> ""]

\* A merge that stores the merged entry even when it has no tests.
StoreMergedAlways(lines_dict, hp, dict_key, past_result) ==
    [dict |-> Put(lines_dict, dict_key, past_result), heap |-> hp, exc |-> ""]

\* Lines 216-221: the merged entry is stored unless it has no tests.
StoreMerged(lines_dict, hp, dict_key, past_result) ==
    [dict |-> IF ~HasTests(hp[past_result]) THEN lines_dict
              ELSE Put(lines_dict, dict_key, past_result),
     heap |-> hp, exc |-> ""]

\* Lines 211-215: past_result.merge(result), or the result itself.
MergePast(lines_dict, hp, dict_key, result, merged) ==
    IF merged.exc /= ""
    THEN [dict |-> lines_dict, heap |-> hp, exc |-> merged.exc]
    ELSE StoreMerged(lines_dict, merged.heap, dict_key,
                     IF dict_key \in DOMAIN lines_dict THEN lines_dict[dict_key]
                     ELSE result)

\* TestFinderResult.merge_into_dict(lines_dict, dict_key, result), result a
\* reference into hp.
MergeIntoDict(lines_dict, hp, dict_key, result) ==
    IF KeyIsFalse(dict_key) \/ result = NoRef
    THEN [dict |-> lines_dict, heap |-> hp, exc |-> "ValueError"]
    ELSE MergePast(lines_dict, hp, dict_key, result,
                   IF dict_key \in DOMAIN lines_dict
                   THEN Merge(hp, lines_dict[dict_key], hp[result])
                   ELSE [heap |-> hp, exc |-> ""])

\* obj_name.find('test_')
FindTestUnderscore(name) == Find(<<"t", "e", "s", "t", "_">>, Chars(name))

\* The values a first argument takes: None stands for a function without
\* arguments; the others are a test case, a test case whose class makes it
\* false (a __len__ of 0), another object, and another object that is false.
ArgValues == {"None", "testcase", "empty_testcase", "object", "empty_object"}

\* Python's truth value of this_self.
ArgIsTrue(this_self) == this_self \in {"testcase", "object"}

\* isinstance(this_self, self.test_case_classes)
IsTestCaseInstance(this_self) == this_self \in {"testcase", "empty_testcase"}

\* TestFinder._is_test_framework_method: os.sep + "unittest" + os.sep is found
\* in the filename.
IsTestFrameworkMethod(filename) ==
    Find(<<"/", "u", "n", "i", "t", "t", "e", "s", "t", "/">>, Chars(filename)) /= -1

\* Lines 92-108: the instance rule.
IsTestCaseMethod(this_self, filename) ==
    IF ArgIsTrue(this_self)
    THEN IF IsTestCaseInstance(this_self)
         THEN ~IsTestFrameworkMethod(filename)
         ELSE FALSE
    ELSE FALSE

\* TestFinder._is_test_method
IsTestMethod(frame, f_info) ==
    IF f_info.function_name = "test" \/ FindTestUnderscore(f_info.function_name) > -1
    THEN TRUE
    ELSE IsTestCaseMethod(frame.first_arg, f_info.filename)

\* TestFinder.get_frame_info
GetFrameInfo(frame) ==
    [filename |-> CoFilename(frame.f_code), line_no |-> frame.f_lineno,
     function_name |-> frame.f_code]

TestLine(filename, line_no, start_line, function_name) ==
    [filename |-> filename, line_no |-> line_no, start_line |-> start_line,
     function_name |-> function_name]

----------------------------------------------------------------------------
(* coverage/pytracer.py: PyTracer.  The operators below work on a machine  *)
(* m = [self, cache, heap, exc, asked]: the tracer, the shared cache, the   *)
(* objects, the exception the handler has raised ("" for none), and the     *)
(* number of calls of should_trace made for each filename.                  *)

\* PyTracer.__init__, with the attributes the collector sets afterwards.
NewTracer(arcs, should_record_callers, warn, threading) ==
    [data |-> EmptyDict, callers_data |-> EmptyDict, arcs |-> arcs,
     should_record_callers |-> should_record_callers, warn |-> warn,
     plugin_data |-> EmptyDict, threading |-> threading,
     file_tracer |-> "init", cur_file_dict |-> "init",
     cur_file_callers_dict |-> "init", last_line |-> 0,
     data_stack |-> << >>, callers_stack |-> << >>, callers_line |-> EmptyDict,
     last_exc_back |-> NoFrame, last_exc_firstlineno |-> 0,
     thread |-> "None", stopped |-> FALSE, plugin |-> "unset"]

\* The TraceContext: what a call event saves on data_stack.
Context(s) == <<s.file_tracer, s.cur_file_dict, s.cur_file_callers_dict, s.last_line>>

\* Python's truth value of self.cur_file_dict: None, [] and {} are false.
CurFileDictTrue(s) ==
    s.cur_file_dict \notin {"None", "init"} /\ s.data[s.cur_file_dict] /= {}

\* self.cur_file_dict[key] = None
SetCurFileDict(m, key) ==
    IF m.self.cur_file_dict = "None" THEN [m EXCEPT !.exc = "TypeError"]
    ELSE IF m.self.cur_file_dict = "init" THEN [m EXCEPT !.exc = "IndexError"]
    ELSE [m EXCEPT !.self.data[m.self.cur_file_dict] = @ \cup {key}]

\* The targets a return event assigns the popped context to (line 216).
RestoreOnReturn(s, ctx) ==
    [s EXCEPT !.plugin = ctx[1], !.cur_file_dict = ctx[2],
              !.cur_file_callers_dict = ctx[3], !.last_line = ctx[4]]

\* The targets the missed-return correction assigns the popped context to (line 95).
RestoreOnMissedReturn(s, ctx) ==
    [s EXCEPT !.file_tracer = ctx[1], !.cur_file_dict = ctx[2],
              !.cur_file_callers_dict = ctx[3], !.last_line = ctx[4]]

\* Whether the terminal arc of a frame is recorded (lines 92 and 212).
RecordsExitArc(s) == s.arcs /\ CurFileDictTrue(s)

\* self.data_stack.pop(), without the assignment of the popped context.
PopDataStack(s) == [s EXCEPT !.data_stack = SubSeq(@, 1, Len(@) - 1)]

\* A correction that forgets to pop the unwound frame's context.
MissedReturnNoPop(m) == m

\* Lines 95-97: the pop of the correction.
MissedReturnPop(m) ==
    IF m.exc /= "" THEN m
    ELSE IF m.self.data_stack = << >> THEN [m EXCEPT !.exc = "IndexError"]
    ELSE [m EXCEPT !.self = RestoreOnMissedReturn(PopDataStack(m.self),
                                m.self.data_stack[Len(m.self.data_stack)])]

\* A correction that leaves the marker of the missed return in place.
KeepLastExcBack(m) == m

\* Line 98.
ClearLastExcBack(m) ==
    IF m.exc /= "" THEN m ELSE [m EXCEPT !.self.last_exc_back = NoFrame]

\* Lines 89-98: the correction of a return event that never came.
MissedReturn(m, frame) ==
    IF m.self.last_exc_back = NoFrame THEN m
    ELSE ClearLastExcBack(
            IF frame.id /= m.self.last_exc_back THEN m
            ELSE MissedReturnPop(
                    IF RecordsExitArc(m.self)
                    THEN SetCurFileDict(m, ArcKey(m.self.last_line,
                                                  -m.self.last_exc_firstlineno))
                    ELSE m))

\* PyTracer._in_top_test
InTopTest(s, current_frame) ==
    IF s.callers_stack = << >> \/ current_frame.id = NoFrame THEN FALSE
    ELSE current_frame.f_code = s.callers_stack[Len(s.callers_stack)][1]

\* PyTracer.get_callers_mapped_stack
GetCallersMappedStack(s) ==
    {s.callers_line[c] : c \in SeqToSet(s.callers_stack) \cap DOMAIN s.callers_line}

\* Lines 141-146: a tracked frame of a test routine is pushed on callers_stack.
PushCaller(s, frame, f_info) ==
    IF s.should_record_callers /\ IsTestMethod(frame, f_info)
    THEN [s EXCEPT !.callers_stack = Append(@, <<frame.f_code, f_info>>)]
    ELSE s

\* Lines 130-139: the maps of a tracked file become the current ones.
EnterFile(s, tracename, file_tracer) ==
    [s EXCEPT !.data = IF tracename \in DOMAIN @ THEN @ ELSE Put(@, tracename, {}),
              !.plugin_data = IF tracename \notin DOMAIN s.data /\ file_tracer /= "None"
                              THEN Put(@, tracename, file_tracer) ELSE @,
              !.callers_data = IF tracename \in DOMAIN @ THEN @
                               ELSE Put(@, tracename, EmptyDict),
              !.cur_file_dict = tracename,
              !.cur_file_callers_dict = tracename,
              !.file_tracer = file_tracer]

\* A call event that leaves the caller's maps current in an untracked frame.
CallWithoutReset(s, frame, disp) ==
    [(IF disp.trace
      THEN PushCaller(EnterFile(s, disp.source_filename, disp.file_tracer),
                      frame, GetFrameInfo(frame))
      ELSE s)
        EXCEPT !.last_line = -1]

\* Lines 114-150, with the disposition of the frame's file; the plugin of this
\* model has no dynamic_source_file_name.
CallWith(s, frame, disp) ==
    [(IF disp.trace
      THEN PushCaller(EnterFile(s, disp.source_filename, disp.file_tracer),
                      frame, GetFrameInfo(frame))
      ELSE [s EXCEPT !.file_tracer = "None", !.cur_file_dict = "None",
                     !.cur_file_callers_dict = "None"])
        EXCEPT !.last_line = -1]

\* Lines 105-107.
PushContext(s) == [s EXCEPT !.data_stack = Append(@, Context(s))]

\* Lines 109-112: the memoized trace decision.
Disposition(cache, filename) ==
    IF filename \in DOMAIN cache THEN cache[filename] ELSE ShouldTrace(filename)

\* d[k] += 1, for a counter d that starts at 0.
Count(d, k) == Put(d, k, (IF k \in DOMAIN d THEN d[k] ELSE 0) + 1)

\* A call event that asks should_trace whatever the cache holds.
OnCallUncached(m, frame) ==
    [m EXCEPT !.self = CallWith(PushContext(m.self), frame,
                                ShouldTrace(CoFilename(frame.f_code))),
              !.cache = Put(@, CoFilename(frame.f_code),
                            ShouldTrace(CoFilename(frame.f_code))),
              !.asked = Count(@, CoFilename(frame.f_code))]

\* Lines 102-150: a call event.
OnCall(m, frame) ==
    [m EXCEPT !.self = CallWith(PushContext(m.self), frame,
                                Disposition(m.cache, CoFilename(frame.f_code))),
              !.cache = IF CoFilename(frame.f_code) \in DOMAIN @ THEN @
                        ELSE Put(@, CoFilename(frame.f_code),
                                 ShouldTrace(CoFilename(frame.f_code))),
              !.asked = IF CoFilename(frame.f_code) \in DOMAIN m.cache THEN @
                        ELSE Count(@, CoFilename(frame.f_code))]

\* Lines 165-181: a line of the top test updates that test's current line.
UpdateCallersLine(s, frame, f_info) ==
    IF InTopTest(s, frame)
    THEN [s EXCEPT !.callers_line =
             Put(@, s.callers_stack[Len(s.callers_stack)],
                 TestLine(f_info.filename, f_info.line_no,
                          s.callers_stack[Len(s.callers_stack)][2].line_no,
                          f_info.function_name))]
    ELSE s

\* Line 184: the new TestFinderResult is the last object of the heap.
NewWhichTests(m, s) ==
    [m EXCEPT !.self = s,
              !.heap = Append(@, TestFinderResult("None", GetCallersMappedStack(s)))]

\* Whether a line event computes which_tests (line 164).
HasWhichTests(s) == s.should_record_callers /\ s.callers_stack /= << >>

\* Lines 163-184: the machine after which_tests is computed.
WhichTests(m, frame) ==
    IF HasWhichTests(m.self)
    THEN NewWhichTests(m, UpdateCallersLine(m.self, frame, GetFrameInfo(frame)))
    ELSE m

\* The merge result r assigned to the current file's callers map.
AssignMerged(m, r) ==
    [m EXCEPT !.self.callers_data[m.self.cur_file_callers_dict] = r.dict,
              !.heap = r.heap, !.exc = r.exc]

\* merge_into_dict on self.cur_file_callers_dict
MergeIntoCallers(m, key, which_tests) ==
    IF m.exc /= "" \/ which_tests = NoRef THEN m
    ELSE IF m.self.cur_file_callers_dict = "None"
    THEN [m EXCEPT !.exc = "AttributeError"]
    ELSE IF m.self.cur_file_callers_dict = "init" THEN m
    ELSE AssignMerged(m, MergeIntoDict(
             m.self.callers_data[m.self.cur_file_callers_dict], m.heap, key,
             which_tests))

\* Lines 198-205: the loop of statement mode over range(lineno, lineno_to + 1).
RECURSIVE RecordLines(_, _, _, _)
RecordLines(m, lineno, lineno_to, which_tests) ==
    IF lineno > lineno_to \/ m.exc /= "" THEN m
    ELSE RecordLines(
            MergeIntoCallers(SetCurFileDict(m, LineKey(lineno)), LineKey(lineno),
                             which_tests),
            lineno + 1, lineno_to, which_tests)

\* Lines 186-196: the arc of branch mode.
RecordArc(m, lineno_from, which_tests) ==
    MergeIntoCallers(SetCurFileDict(m, ArcKey(m.self.last_line, lineno_from)),
                     ArcKey(m.self.last_line, lineno_from), which_tests)

\* Whether some key of callers_data holds the object ref.
Referenced(s, ref) ==
    \E f \in DOMAIN s.callers_data :
        \E k \in DOMAIN s.callers_data[f] : s.callers_data[f][k] = ref

\* A which_tests object that no key holds is freed when the handler returns.
Collect(m, which_tests) ==
    IF which_tests /= NoRef /\ ~Referenced(m.self, which_tests)
    THEN [m EXCEPT !.heap = SubSeq(@, 1, which_tests - 1)]
    ELSE m

\* Lines 186-205 on the machine w that holds which_tests (if any) as the last
\* object of its heap.
Record(w, lineno_from, lineno_to, which_tests) ==
    Collect(IF w.self.arcs THEN RecordArc(w, lineno_from, which_tests)
            ELSE RecordLines(w, lineno_from, lineno_to, which_tests),
            which_tests)

\* Lines 158-205.
RecordIfTracked(m, frame, lineno_from, lineno_to) ==
    IF m.self.cur_file_dict = "None" THEN m
    ELSE Record(WhichTests(m, frame), lineno_from, lineno_to,
                IF HasWhichTests(m.self) THEN Len(m.heap) + 1 ELSE NoRef)

\* Line 207.
SetLastLine(m, lineno_to) ==
    IF m.exc /= "" THEN m ELSE [m EXCEPT !.self.last_line = lineno_to]

\* Lines 153-156: the line range of a line event; plugin_range is what the
\* plugin's line_number_range answers for this frame.
LineNumberRange(s, frame, plugin_range) ==
    IF s.file_tracer \notin {"None", "init"} THEN plugin_range
    ELSE <<frame.f_lineno, frame.f_lineno>>

\* A line event that records the line -1 like any other.
LineWithMinusOne(m, frame, range) ==
    SetLastLine(RecordIfTracked(m, frame, range[1], range[2]), range[2])

\* Lines 157-207.
LineWith(m, frame, range) ==
    IF range[1] = -1 THEN m
    ELSE SetLastLine(RecordIfTracked(m, frame, range[1], range[2]), range[2])

\* Lines 151-207: a line event.
OnLine(m, frame, plugin_range) ==
    LineWith(m, frame, LineNumberRange(m.self, frame, plugin_range))

\* Lines 220-231: the pop of the test stack at a return event.
PopCallers(s, frame) ==
    IF s.should_record_callers /\ InTopTest(s, frame)
    THEN [s EXCEPT !.callers_stack = SubSeq(@, 1, Len(@) - 1),
                   !.callers_line = Del(@, s.callers_stack[Len(s.callers_stack)])]
    ELSE s

\* Lines 215-231.
ReturnPop(m, frame) ==
    IF m.exc /= "" THEN m
    ELSE IF m.self.data_stack = << >> THEN [m EXCEPT !.exc = "IndexError"]
    ELSE [m EXCEPT !.self = PopCallers(
              RestoreOnReturn(PopDataStack(m.self),
                              m.self.data_stack[Len(m.self.data_stack)]),
              frame)]

\* Lines 208-231: a return event.
OnReturn(m, frame) ==
    ReturnPop(IF RecordsExitArc(m.self)
              THEN SetCurFileDict(m, ArcKey(m.self.last_line,
                                            -CoFirstLineno(frame.f_code)))
              ELSE m,
              frame)

\* An exception event that pops the context of the raising frame at once.
OnExceptionPopping(m, frame) ==
    [m EXCEPT !.self = PopDataStack(
                  [@ EXCEPT !.last_exc_back = frame.f_back,
                            !.last_exc_firstlineno = CoFirstLineno(frame.f_code)])]

\* Lines 233-235: an exception event.
OnException(m, frame) ==
    [m EXCEPT !.self.last_exc_back = frame.f_back,
              !.self.last_exc_firstlineno = CoFirstLineno(frame.f_code)]

\* What _trace returns when the tracer is stopped (line 87) and otherwise (line 236).
ReturnWhenStopped == "None"

ReturnOtherwise == "self._trace"

\* Lines 102-235: the event handled after the correction.
Dispatch(m, frame, event, plugin_range) ==
    IF m.exc /= "" THEN m
    ELSE CASE event = "call" -> OnCall(m, frame)
           [] event = "line" -> OnLine(m, frame, plugin_range)
           [] event = "return" -> OnReturn(m, frame)
           [] event = "exception" -> OnException(m, frame)

Returned(m) ==
    [m |-> m, ret |-> IF m.exc /= "" THEN "raised" ELSE ReturnOtherwise]

\* A handler that does not look at the stopped flag.
TraceIgnoringStopped(m, frame, event, plugin_range) ==
    Returned(Dispatch(MissedReturn(m, frame), frame, event, plugin_range))

\* PyTracer._trace(frame, event, arg_unused): the machine afterwards and the
\* value returned.
Trace(m, frame, event, plugin_range) ==
    IF m.self.stopped THEN [m |-> m, ret |-> ReturnWhenStopped]
    ELSE Returned(Dispatch(MissedReturn(m, frame), frame, event, plugin_range))

----------------------------------------------------------------------------
(* The interpreter: the events it delivers to the registered trace function. *)

Machine ==
    [self |-> tracer, cache |-> should_trace_cache, heap |-> heap, exc |-> "",
     asked |-> asked]

Top(fs) == fs[Len(fs)]

DropTop(fs) == SubSeq(fs, 1, Len(fs) - 1)

\* The frame object of the running frame of fs.
TopFrame(fs) == Frame(Len(fs), Top(fs).code, Top(fs).lineno)

\* The trace name a frame of this code is recorded under, "None" if untracked.
TraceName(code) ==
    IF ShouldTrace(CoFilename(code)).trace
    THEN ShouldTrace(CoFilename(code)).source_filename ELSE "None"

\* A frame whose exception event was the last event may be unwound without a
\* return event; the next event is then one of its caller.
UnwindChoices(fs) ==
    IF Len(fs) >= 2 /\ Top(fs).raising THEN {FALSE, TRUE} ELSE {FALSE}

Unwound(fs, unwind) == IF unwind THEN DropTop(fs) ELSE fs

\* Whether a frame of this code is a tracked frame of a test routine.
IsTestCode(code) ==
    /\ TraceName(code) /= "None"
    /\ IsTestMethod(Frame(1, code, CoFirstLineno(code)),
                    GetFrameInfo(Frame(1, code, CoFirstLineno(code))))

\* The tests running in the frames fs.
ActiveTests(fs) == {fs[i].code : i \in {j \in 1..Len(fs) : IsTestCode(fs[j].code)}}

\* The keys a line event of the tracer s records for the range it resolved.
KeysOfLine(s, range) ==
    IF s.stopped \/ range[1] = -1 \/ s.cur_file_dict \in {"None", "init"} THEN {}
    ELSE IF s.arcs THEN {ArcKey(s.last_line, range[1])}
    ELSE {LineKey(n) : n \in range[1]..range[2]}

\* The range the frame's own file tracer reports for a line event.
OwnRange(code, n, plugin_range) ==
    IF TraceName(code) /= "None" /\ ShouldTrace(CoFilename(code)).file_tracer /= "None"
    THEN plugin_range ELSE <<n, n>>

\* reported, with the lines of a line event of a frame recorded under name.
Report(name, own) ==
    IF name = "None" \/ own[1] = -1 THEN reported
    ELSE Put(reported, name,
             (IF name \in DOMAIN reported THEN reported[name] ELSE {})
             \cup (own[1]..own[2]))

\* active_at, with the tests running while the keys were recorded in file f.
Attribute(f, keys, tests) ==
    IF keys = {} THEN active_at
    ELSE Put(active_at, f,
             [k \in (IF f \in DOMAIN active_at THEN DOMAIN active_at[f] ELSE {})
                    \cup keys |->
                 (IF f \in DOMAIN active_at /\ k \in DOMAIN active_at[f]
                  THEN active_at[f][k] ELSE {})
                 \cup (IF k \in keys THEN tests ELSE {})])

\* The tracer as a line event finds it, after the correction of a missed return.
Corrected(frame) == IF tracer.stopped THEN tracer ELSE MissedReturn(Machine, frame).self

AttributeLine(s, frame, plugin_range, tests) ==
    IF ~s.should_record_callers THEN active_at
    ELSE Attribute(s.cur_file_dict,
                   KeysOfLine(s, LineNumberRange(s, frame, plugin_range)), tests)

\* The missed-return scenario: call(f), line(f, 10), call(g), exception(g),
\* line(f, 12), return(f), with f in a file without plugin and g tracked.
\* step counts the events matched so far; -1 when the run left the scenario.
ScenarioStep(sc, event, frame) ==
    CASE sc.step = 0 /\ event = "call" /\ frame.id = 1
             /\ TraceName(frame.f_code) /= "None"
             /\ ShouldTrace(CoFilename(frame.f_code)).file_tracer = "None"
           -> [step |-> 1, f |-> frame.f_code, g |-> "None"]
      [] sc.step = 1 /\ event = "line" /\ frame.id = 1 /\ frame.f_lineno = 10
           -> [sc EXCEPT !.step = 2]
      [] sc.step = 2 /\ event = "call" /\ frame.id = 2
             /\ TraceName(frame.f_code) /= "None"
           -> [sc EXCEPT !.step = 3, !.g = frame.f_code]
      [] sc.step = 3 /\ event = "exception" /\ frame.id = 2
           -> [sc EXCEPT !.step = 4]
      [] sc.step = 4 /\ event = "line" /\ frame.id = 1 /\ frame.f_lineno = 12
           -> [sc EXCEPT !.step = 5]
      [] sc.step = 5 /\ event = "return" /\ frame.id = 1
           -> [sc EXCEPT !.step = 6]
      [] OTHER -> [sc EXCEPT !.step = -1]

\* The result res of the handler becomes the state; a trace function that
\* raises is removed by the interpreter.  range is the line range a line event
\* resolved to.
Handled(res, frame, event, saved, range) ==
    /\ tracer' = res.m.self
    /\ should_trace_cache' = res.m.cache
    /\ heap' = res.m.heap
    /\ asked' = res.m.asked
    /\ settrace' = IF res.m.exc /= "" THEN [settrace EXCEPT !["t1"] = "None"]
                   ELSE settrace
    /\ nevents' = nevents + 1
    /\ last' = [event |-> event, frame |-> frame.id, code |-> frame.f_code,
                ret |-> res.ret, saved |-> saved, before |-> Context(tracer),
                depth |-> Len(tracer.data_stack), range |-> range]
    /\ scenario' = ScenarioStep(scenario, event, frame)
    /\ UNCHANGED <<warnings, nstops, maxev, dataVars>>

\* The delivery of one event to _trace in the running frame of fs.
Deliver(fs, event, plugin_range, saved) ==
    Handled(Trace(Machine, TopFrame(fs), event, plugin_range), TopFrame(fs),
            event, saved,
            IF event = "line"
            THEN LineNumberRange(Corrected(TopFrame(fs)), TopFrame(fs), plugin_range)
            ELSE << >>)

\* Events reach _trace while it is the trace function of the traced thread.
CanDeliver == settrace["t1"] = "self._trace" /\ nevents < maxev

NewFrame(code) ==
    [code |-> code, lineno |-> CoFirstLineno(code), lined |-> FALSE,
     raising |-> FALSE, saved |-> Context(tracer)]

\* A function is called: a call event in the new frame.  A frame calls only
\* after it has executed a line and not while an exception is passing.
CallEvent(code) ==
    /\ CanDeliver
    /\ Len(frames) < MaxDepth
    /\ frames /= << >> => Top(frames).lined /\ ~Top(frames).raising
    /\ frames' = Append(frames, NewFrame(code))
    /\ Deliver(Append(frames, NewFrame(code)), "call", <<-1, -1>>, << >>)
    /\ UNCHANGED <<reported, active_at>>

LineIn(fs, n, plugin_range) ==
    /\ frames' = fs
    /\ Deliver(fs, "line", plugin_range, << >>)
    /\ reported' = Report(TraceName(Top(fs).code),
                          OwnRange(Top(fs).code, n, plugin_range))
    /\ active_at' = AttributeLine(Corrected(TopFrame(fs)), TopFrame(fs),
                                  plugin_range, ActiveTests(fs))

\* The running frame, or its caller after an unwinding, executes line n.
LineEvent(n, plugin_range, unwind) ==
    /\ CanDeliver
    /\ frames /= << >>
    /\ LineIn([Unwound(frames, unwind) EXCEPT
                  ![Len(Unwound(frames, unwind))].lineno = n,
                  ![Len(Unwound(frames, unwind))].lined = TRUE,
                  ![Len(Unwound(frames, unwind))].raising = FALSE],
              n, plugin_range)

ReturnIn(fs) ==
    /\ Top(fs).lined \/ Top(fs).raising
    /\ frames' = DropTop(fs)
    /\ Deliver(fs, "return", <<-1, -1>>, Top(fs).saved)

\* The running frame, or its caller after an unwinding, returns.
ReturnEvent(unwind) ==
    /\ CanDeliver
    /\ frames /= << >>
    /\ ReturnIn(Unwound(frames, unwind))
    /\ UNCHANGED <<reported, active_at>>

ExceptionIn(fs, unwind) ==
    /\ unwind \/ ~Top(fs).raising
    /\ frames' = [fs EXCEPT ![Len(fs)].raising = TRUE]
    /\ Deliver(fs, "exception", <<-1, -1>>, << >>)

\* An exception is raised in, or passes through, the running frame or its
\* caller after an unwinding.
ExceptionEvent(unwind) ==
    /\ CanDeliver
    /\ frames /= << >>
    /\ ExceptionIn(Unwound(frames, unwind), unwind)
    /\ UNCHANGED <<reported, active_at>>

Threads == {"t1", "t2"}

\* PyTracer.start, called on thread t1: sys.settrace sets the trace function
\* of the calling thread.
Start ==
    /\ settrace["t1"] = "None" /\ nevents = 0 /\ frames = << >>
    /\ tracer.thread = "None" /\ ~tracer.stopped
    /\ tracer' = [tracer EXCEPT !.thread = IF tracer.threading THEN "t1" ELSE @]
    /\ settrace' = [settrace EXCEPT !["t1"] = "self._trace"]
    /\ UNCHANGED <<should_trace_cache, heap, warnings, frames, nevents, last,
                   reported, active_at, scenario, nstops, maxev, asked,
                   dataVars>>

NoEvent ==
    [event |-> "none", frame |-> NoFrame, code |-> "None", ret |-> "None",
     saved |-> << >>, before |-> << >>, depth |-> 0, range |-> << >>]

\* A stop that never returns before it touches the trace function.
StopNeverReturnsEarly(s, current_thread) == FALSE

\* Lines 283-287: whether stop returns before it touches the trace function.
StopReturnsEarly(s, current_thread) ==
    s.threading /\ s.thread /= current_thread

\* Lines 289-292: whether stop warns that the trace function changed.
StopWarns(s, gettrace) == s.warn /\ gettrace /= "self._trace"

\* Whether start has been called, seen from a call of stop: start registers
\* the trace function of t1 and only a stop on t1 removes it again.
Started ==
    settrace["t1"] /= "None" \/ (last.event = "stop" /\ last.saved = <<TRUE>>)

\* PyTracer.stop, called on thread t.
Stop(t) ==
    /\ nstops < MaxStops
    /\ nstops' = nstops + 1
    /\ tracer' = [tracer EXCEPT !.stopped = TRUE]
    /\ warnings' = IF ~StopReturnsEarly(tracer, t) /\ StopWarns(tracer, settrace[t])
                   THEN warnings + 1 ELSE warnings
    /\ settrace' = IF StopReturnsEarly(tracer, t) THEN settrace
                   ELSE [settrace EXCEPT ![t] = "None"]
    /\ last' = [NoEvent EXCEPT !.event = "stop", !.code = t,
                               !.saved = <<Started>>,
                               !.before = <<tracer.stopped, settrace, warnings>>,
                               !.depth = IF last.event = "stop" /\ last.code = t
                                         THEN last.depth + 1 ELSE 1]
    /\ UNCHANGED <<should_trace_cache, heap, frames, nevents, reported,
                   active_at, scenario, maxev, asked, dataVars>>

\* Another tool replaces the trace function of the traced thread.
ForeignSettrace ==
    /\ settrace["t1"] = "self._trace"
    /\ settrace' = [settrace EXCEPT !["t1"] = "other"]
    /\ UNCHANGED <<tracer, should_trace_cache, heap, warnings, frames, nevents,
                   last, reported, active_at, scenario, nstops, maxev, asked,
                   dataVars>>

NoMerges == [key |-> << >>, result |-> NoRef, base |-> {}, merged |-> {},
             count |-> 0, total |-> 0, again |-> FALSE, before |-> EmptyDict,
             accepted |-> TRUE, clean |-> TRUE, exc |-> ""]

\* CoverageData.__init__
NewCoverageData == [lines |-> EmptyDict, arcs |-> EmptyDict, callers |-> EmptyDict]

NotCombined ==
    [done |-> FALSE, files |-> << >>, order |-> << >>, exc |-> "", removed |-> 0]

\* No call of _is_test_method has been made.
NoFinderCall ==
    [frame |-> [f_code |-> "None", first_arg |-> "None"],
     f_info |-> [filename |-> "None", function_name |-> "None"],
     called |-> FALSE, result |-> FALSE]

\* No tracer is handling a call event: disp is << >> for None and <<d>> for
\* the disposition d.
NotHandling ==
    [t \in Threads |-> [pc |-> "idle", filename |-> "None", disp |-> << >>,
                        calls |-> 0]]

InitData ==
    /\ file_callers = EmptyDict
    /\ merges = NoMerges
    /\ cov = NewCoverageData
    /\ inputs = << >>
    /\ combined = NotCombined
    /\ handling = NotHandling
    /\ finder = NoFinderCall

InitTracer(arcs, should_record_callers, warn, threading, budget) ==
    /\ tracer = NewTracer(arcs, should_record_callers, warn, threading)
    /\ should_trace_cache = EmptyDict
    /\ settrace = [t \in Threads |-> "None"]
    /\ warnings = 0
    /\ frames = << >>
    /\ nevents = 0
    /\ last = NoEvent
    /\ reported = EmptyDict
    /\ active_at = EmptyDict
    /\ scenario = [step |-> 0, f |-> "None", g |-> "None"]
    /\ nstops = 0
    /\ maxev = budget
    /\ asked = EmptyDict

InitWith(arcs, should_record_callers, warn, threading, budget) ==
    /\ InitTracer(arcs, should_record_callers, warn, threading, budget)
    /\ heap = << >>
    /\ InitData

Init ==
    \E arcs \in BOOLEAN, should_record_callers \in BOOLEAN :
        InitWith(arcs, should_record_callers, TRUE, TRUE, MaxEvents)

Events ==
    \/ \E code \in Codes : CallEvent(code)
    \/ \E n \in Lines : \E r \in PluginRanges(n) : \E u \in UnwindChoices(frames) :
          LineEvent(n, r, u)
    \/ \E u \in UnwindChoices(frames) : ReturnEvent(u)
    \/ \E u \in UnwindChoices(frames) : ExceptionEvent(u)

Next == Start \/ Events

\* The tracer under the events of one traced thread.
Spec == Init /\ [][Next]_vars

InitLife ==
    \E arcs \in BOOLEAN, warn \in BOOLEAN, threading \in BOOLEAN :
        InitWith(arcs, TRUE, warn, threading, MaxLifeEvents)

NextLife == Start \/ Events \/ (\E t \in Threads : Stop(t)) \/ ForeignSettrace

\* The tracer's life: start, events, stop from either thread, and a foreign
\* tool that replaces the trace function.
SpecLife == InitLife /\ [][NextLife]_vars

----------------------------------------------------------------------------
(* Lines 108-112 of _trace in the tracers of several threads, which share   *)
(* one should_trace_cache: a thread can be switched out between any two of  *)
(* the cache lookup, the call of should_trace and the cache store.          *)

\* The state the shared steps leave alone.
sharedRest == <<tracer, heap, settrace, warnings, frames, nevents, last,
                reported, active_at, scenario, nstops, maxev, file_callers,
                merges, cov, inputs, combined, finder>>

\* A lookup that is not keyed by the filename: it finds any cached decision.
CacheGetAny(cache, filename) ==
    IF cache = EmptyDict THEN << >>
    ELSE <<cache[CHOOSE f \in DOMAIN cache : TRUE]>>

\* Line 109: self.should_trace_cache.get(filename)
CacheGet(cache, filename) ==
    IF filename \in DOMAIN cache THEN <<cache[filename]>> ELSE << >>

\* Line 108: the tracer of thread t gets a call event of a frame of code.
BeginCall(t, code) ==
    /\ handling[t].pc = "idle" /\ handling[t].calls < MaxSharedCalls
    /\ handling' = [handling EXCEPT ![t] =
                        [pc |-> "get", filename |-> CoFilename(code),
                         disp |-> << >>, calls |-> @.calls + 1]]
    /\ UNCHANGED <<should_trace_cache, asked, sharedRest>>

\* Lines 109-110: the lookup, and the test of what it found.
GetStep(t) ==
    /\ handling[t].pc = "get"
    /\ handling' = [handling EXCEPT
          ![t].disp = CacheGet(should_trace_cache, handling[t].filename),
          ![t].pc = IF CacheGet(should_trace_cache, handling[t].filename) = << >>
                    THEN "ask" ELSE "use"]
    /\ UNCHANGED <<should_trace_cache, asked, sharedRest>>

\* Line 111: disp = self.should_trace(filename, frame)
AskStep(t) ==
    /\ handling[t].pc = "ask"
    /\ handling' = [handling EXCEPT
          ![t].disp = <<ShouldTrace(handling[t].filename)>>, ![t].pc = "put"]
    /\ asked' = Count(asked, handling[t].filename)
    /\ UNCHANGED <<should_trace_cache, sharedRest>>

\* Line 112: self.should_trace_cache[filename] = disp
PutStep(t) ==
    /\ handling[t].pc = "put"
    /\ should_trace_cache' = Put(should_trace_cache, handling[t].filename,
                                 handling[t].disp[1])
    /\ handling' = [handling EXCEPT ![t].pc = "use"]
    /\ UNCHANGED <<asked, sharedRest>>

\* Lines 114-150: the rest of the call event, which uses disp.
UseStep(t) ==
    /\ handling[t].pc = "use"
    /\ handling' = [handling EXCEPT ![t].pc = "idle"]
    /\ UNCHANGED <<should_trace_cache, asked, sharedRest>>

InitShared ==
    /\ InitTracer(FALSE, TRUE, FALSE, TRUE, 0)
    /\ heap = << >>
    /\ InitData

NextShared ==
    \E t \in Threads :
        \/ \E code \in Codes : BeginCall(t, code)
        \/ GetStep(t)
        \/ AskStep(t)
        \/ PutStep(t)
        \/ UseStep(t)

SpecShared == InitShared /\ [][NextShared]_vars

----------------------------------------------------------------------------
(* TestFinder._is_test_method on its own, for a frame and its frame info.   *)

FinderNames == {"test", "test_one", "run_test_two", "testing", "foo"}

FinderFilenames == {"/lib/unittest/case.py", "/proj/unittest_x/t.py", "/proj/t.py"}

\* self._is_test_method(frame, frame_info)
IsTestMethodCall ==
    /\ ~finder.called
    /\ finder' = [finder EXCEPT !.called = TRUE,
                                !.result = IsTestMethod(finder.frame, finder.f_info)]
    /\ UNCHANGED <<tracerVars, heap, file_callers, merges, cov, inputs, combined,
                   handling>>

InitFinder ==
    /\ InitTracer(FALSE, TRUE, FALSE, TRUE, 0)
    /\ heap = << >>
    /\ file_callers = EmptyDict
    /\ merges = NoMerges
    /\ cov = NewCoverageData
    /\ inputs = << >>
    /\ combined = NotCombined
    /\ handling = NotHandling
    /\ \E name \in FinderNames, this_self \in ArgValues,
          filename \in FinderFilenames :
          finder = [frame |-> [f_code |-> name, first_arg |-> this_self],
                    f_info |-> [filename |-> filename, function_name |-> name],
                    called |-> FALSE, result |-> FALSE]

NextFinder == IsTestMethodCall

SpecFinder == InitFinder /\ [][NextFinder]_vars

----------------------------------------------------------------------------
(* TestFinderResult.merge_into_dict on its own: results are merged into the *)
(* keys of one per-file attribution map.                                   *)

\* The test identifiers of the results.
Tests == {"test_one", "test_two"}

\* The line_id values of the results: None, as the tracer passes, and the
\* identifier of a frame, as the frame inspection passes.
LineIds == {"None", "frame"}

\* The keys results are merged into: line numbers and an arc.
MergeKeys == {LineKey(0), LineKey(1), ArcKey(-1, 1)}

\* The key the map may hold from the start.
HeldKey == LineKey(1)

\* The tests stored under key k of the map d; none when k has no entry.
StoredTests(d, hp, k) == IF k \in DOMAIN d THEN hp[d[k]].test_methods ELSE {}

\* The map d read through its objects: key -> tests.
ViewOf(d, hp) == [k \in DOMAIN d |-> hp[d[k]].test_methods]

\* Whether this merge continues the run of merges into one key.
SameRun(key) == merges.count > 0 /\ merges.key = key

\* Whether the arguments are ones merge_into_dict takes: a key that is true
\* and a result with the line_id of the entry the key holds, if it holds one.
Accepted(hp, key, result) ==
    /\ ~KeyIsFalse(key)
    /\ key \in DOMAIN file_callers =>
           hp[file_callers[key]].line_id = hp[result].line_id

\* The outcome r of merge_into_dict(file_callers, key, result) becomes the
\* state; hp is the heap the call found, with the result in it.
Merged(r, hp, key, result) ==
    /\ file_callers' = r.dict
    /\ heap' = r.heap
    /\ merges' = [key |-> key, result |-> result,
                  base |-> IF SameRun(key) THEN merges.base
                           ELSE StoredTests(file_callers, heap, key),
                  merged |-> (IF SameRun(key) THEN merges.merged ELSE {})
                             \cup hp[result].test_methods,
                  count |-> (IF SameRun(key) THEN merges.count ELSE 0) + 1,
                  total |-> merges.total + 1,
                  again |-> SameRun(key) /\ merges.result = result,
                  before |-> ViewOf(file_callers, heap),
                  accepted |-> Accepted(hp, key, result),
                  clean |-> (SameRun(key) => merges.clean)
                            /\ Accepted(hp, key, result),
                  exc |-> r.exc]
    /\ UNCHANGED <<tracerVars, cov, inputs, combined, handling, finder>>

MergeInto(hp, key, result) ==
    Merged(MergeIntoDict(file_callers, hp, key, result), hp, key, result)

\* merge_into_dict with a new TestFinderResult(line_id, tests).
MergeNew(key, line_id, tests) ==
    /\ merges.total < MaxMerges
    /\ MergeInto(Append(heap, TestFinderResult(line_id, tests)), key, Len(heap) + 1)

\* merge_into_dict with the result of the previous call once more, as the
\* loop of statement mode does for the next line and as a repeated merge does.
MergeSame(key) ==
    /\ merges.total < MaxMerges
    /\ merges.result /= NoRef
    /\ MergeInto(heap, key, merges.result)

\* The map is empty or holds one entry, with tests, under HeldKey.
InitMerge ==
    /\ InitTracer(FALSE, TRUE, FALSE, FALSE, 0)
    /\ \E tests \in SUBSET Tests :
          IF tests = {}
          THEN heap = << >> /\ file_callers = EmptyDict
          ELSE /\ heap = <<TestFinderResult("None", tests)>>
               /\ file_callers = Put(EmptyDict, HeldKey, 1)
    /\ merges = NoMerges
    /\ cov = NewCoverageData
    /\ inputs = << >>
    /\ combined = NotCombined
    /\ handling = NotHandling
    /\ finder = NoFinderCall

NextMerge ==
    \/ \E key \in MergeKeys : \E line_id \in LineIds : \E tests \in SUBSET Tests :
          MergeNew(key, line_id, tests)
    \/ \E key \in MergeKeys : MergeSame(key)

SpecMerge == InitMerge /\ [][NextMerge]_vars

----------------------------------------------------------------------------
(* coverage/data.py: combine_parallel_data over the stored datasets.  A     *)
(* stored dataset is what write_file pickles: per file the sorted list of   *)
(* its lines, the sorted list of its arcs, and its attribution map, whose   *)
(* TestFinderResult objects pickle keeps shared where the map shares them.  *)

\* The paths the datasets record the module under.
Paths == {"mod.py", "remote/mod.py"}

\* aliases.map(filename): the remote path of the module is the local one.
AliasMap(filename) == IF filename = "remote/mod.py" THEN "mod.py" ELSE filename

\* The dataset of a statement-mode run over the file at path, in which the
\* tests ran line 10 and, unless line11 is "absent", line 11: as its "own"
\* line event, or as the "shared" range 10..11 of one line event, which
\* stores one TestFinderResult under both lines.
LineData(path, tests, line11) ==
    [lines |-> Put(EmptyDict, path,
                   IF line11 = "absent" THEN <<LineKey(10)>>
                   ELSE <<LineKey(10), LineKey(11)>>),
     arcs |-> EmptyDict,
     callers |-> Put(EmptyDict, path,
                     IF line11 = "absent" THEN Put(EmptyDict, LineKey(10), 1)
                     ELSE Put(Put(EmptyDict, LineKey(10), 1), LineKey(11),
                              IF line11 = "shared" THEN 1 ELSE 2)),
     objects |-> IF line11 = "own"
                 THEN <<TestFinderResult("None", tests),
                        TestFinderResult("None", tests)>>
                 ELSE <<TestFinderResult("None", tests)>>,
     malformed |-> "nothing"]

\* The dataset of a branch-mode run over the file at path: test_one ran
\* line 10 of the function at line 5.
ArcData(path) ==
    [lines |-> Put(EmptyDict, path, << >>),
     arcs |-> Put(EmptyDict, path, <<ArcKey(-5, 10), ArcKey(-1, 10)>>),
     callers |-> Put(EmptyDict, path, Put(EmptyDict, ArcKey(-1, 10), 1)),
     objects |-> <<TestFinderResult("None", {"test_one"})>>,
     malformed |-> "nothing"]

\* The dataset of a run that measured nothing.
NoData == [lines |-> EmptyDict, arcs |-> EmptyDict, callers |-> EmptyDict,
           objects |-> << >>, malformed |-> "nothing"]

\* What of a stored file may fail to decode: the file itself (raw_data
\* raises), its top level (not a dict), or one of its three items.
Malformations == {"unreadable", "not a dict", "lines", "arcs", "callers"}

\* A file test_two's statement-mode run wrote, of which part what is damaged.
MalformedData(what) ==
    [LineData("mod.py", {"test_two"}, "absent") EXCEPT !.malformed = what]

\* A file whose attribution of line 10 carries a line_id, as the results of
\* find_tests_in_frame do: test_two ran lines 10 and 13.
FrameData ==
    [lines |-> Put(EmptyDict, "mod.py", <<LineKey(10), LineKey(13)>>),
     arcs |-> EmptyDict,
     callers |-> Put(EmptyDict, "mod.py", Put(EmptyDict, LineKey(10), 1)),
     objects |-> <<TestFinderResult("frame", {"test_two"})>>,
     malformed |-> "nothing"]

Datasets ==
    {LineData(path, {test}, line11) :
        path \in Paths, test \in Tests, line11 \in {"absent", "own", "shared"}}
    \cup {ArcData(path) : path \in Paths}
    \cup {NoData}
    \cup {MalformedData(what) : what \in Malformations}
    \cup {FrameData}

\* dict.fromkeys(linenos, None)
FromKeys(linenos) == SeqToSet(linenos)

\* The attribution maps of a loaded dataset, its objects placed after base.
Unpickled(callers, base) ==
    [f \in DOMAIN callers |->
        [k \in DOMAIN callers[f] |-> callers[f][k] + base]]

\* The lines of the stored data, decoded (lines 207-211).
ReadLines(data) == [f \in DOMAIN data.lines |-> FromKeys(data.lines[f])]

\* The arcs of the stored data, decoded (lines 212-216).
ReadArcs(data) == [f \in DOMAIN data.arcs |-> FromKeys(data.arcs[f])]

\* What _read_file returns when the decoding of the item after lines raised:
\* the locals assigned until then.
ReadUntil(data, hp) ==
    IF data.malformed = "arcs"
    THEN [lines |-> ReadLines(data), arcs |-> EmptyDict, callers |-> EmptyDict,
          heap |-> hp]
    ELSE [lines |-> ReadLines(data), arcs |-> ReadArcs(data),
          callers |-> EmptyDict, heap |-> hp]

\* What _read_file returns when nothing was assigned before the exception,
\* or the data is not a dict.
ReadNothing(hp) ==
    [lines |-> EmptyDict, arcs |-> EmptyDict, callers |-> EmptyDict, heap |-> hp]

\* CoverageData._read_file: the lines, arcs and callers of the stored data.
ReadFile(data, hp) ==
    IF data.malformed \in {"unreadable", "not a dict", "lines"}
    THEN ReadNothing(hp)
    ELSE IF data.malformed \in {"arcs", "callers"}
    THEN ReadUntil(data, hp)
    ELSE [lines |-> ReadLines(data),
          arcs |-> ReadArcs(data),
          callers |-> Unpickled(data.callers, Len(hp)),
          heap |-> hp \o data.objects]

RECURSIVE MergeCallersDicts(_, _, _, _)

\* One round of the loop of merge_callers_dicts, for the key line_or_arc.
MergeCallersEntry(this_callers, other_callers, keys, hp, line_or_arc) ==
    IF line_or_arc \notin DOMAIN this_callers
    THEN MergeCallersDicts(Put(this_callers, line_or_arc, other_callers[line_or_arc]),
                           other_callers, keys \ {line_or_arc}, hp)
    ELSE IF hp[this_callers[line_or_arc]].line_id /= hp[other_callers[line_or_arc]].line_id
    THEN [dict |-> this_callers, heap |-> hp, exc |-> "ValueError"]
    ELSE MergeCallersDicts(this_callers, other_callers, keys \ {line_or_arc},
                           Merge(hp, this_callers[line_or_arc],
                                 hp[other_callers[line_or_arc]]).heap)

\* TestFinder.merge_callers_dicts, over the keys of other_callers left.
MergeCallersDicts(this_callers, other_callers, keys, hp) ==
    IF keys = {}
    THEN [dict |-> this_callers, heap |-> hp, exc |-> ""]
    ELSE MergeCallersEntry(this_callers, other_callers, keys, hp,
                           CHOOSE k \in keys : TRUE)

\* d.setdefault(filename, {})
SetDefault(d, filename) ==
    IF filename \in DOMAIN d THEN d[filename] ELSE EmptyDict

\* d.setdefault(filename, {}).update(file_data), the maps as sets of keys.
Update(d, filename, file_data) ==
    Put(d, filename, (IF filename \in DOMAIN d THEN d[filename] ELSE {})
                     \cup file_data)

RECURSIVE UpdateEach(_, _, _)

\* The loops of combine_parallel_data over new_lines and over new_arcs.
UpdateEach(d, new, files) ==
    IF files = {}
    THEN d
    ELSE UpdateEach(Update(d, AliasMap(CHOOSE f \in files : TRUE),
                           new[CHOOSE f \in files : TRUE]),
                    new, files \ {CHOOSE f \in files : TRUE})

RECURSIVE MergeEach(_, _, _, _)

\* The attribution map of filename after merge_callers_dicts gave r.
MergedFile(callers, new, files, filename, r) ==
    IF r.exc /= ""
    THEN [callers |-> Put(callers, AliasMap(filename), r.dict),
          heap |-> r.heap, exc |-> r.exc]
    ELSE MergeEach(Put(callers, AliasMap(filename), r.dict), new,
                   files \ {filename}, r.heap)

MergeFile(callers, new, files, hp, filename) ==
    MergedFile(callers, new, files, filename,
               MergeCallersDicts(SetDefault(callers, AliasMap(filename)),
                                 new[filename], DOMAIN new[filename], hp))

\* The loop of combine_parallel_data over new_callers.
MergeEach(callers, new, files, hp) ==
    IF files = {}
    THEN [callers |-> callers, heap |-> hp, exc |-> ""]
    ELSE MergeFile(callers, new, files, hp, CHOOSE f \in files : TRUE)

\* The data c with the attribution merged as m, one more file combined.
WithCallers(c, lines, arcs, m) ==
    [lines |-> lines, arcs |-> arcs, callers |-> m.callers, heap |-> m.heap,
     exc |-> m.exc, removed |-> c.removed + (IF m.exc = "" THEN 1 ELSE 0)]

\* One round of the loop of combine_parallel_data, for the file read as new.
CombineFile(c, new) ==
    WithCallers(c, UpdateEach(c.lines, new.lines, DOMAIN new.lines),
                UpdateEach(c.arcs, new.arcs, DOMAIN new.arcs),
                MergeEach(c.callers, new.callers, DOMAIN new.callers, new.heap))

RECURSIVE CombineFiles(_, _, _)

\* The loop of combine_parallel_data over the files, in the order listed;
\* an exception ends it.
CombineFiles(c, files, order) ==
    IF order = << >> \/ c.exc /= ""
    THEN c
    ELSE CombineFiles(CombineFile(c, ReadFile(files[Head(order)], c.heap)),
                      files, Tail(order))

\* The orders os.listdir can list the files in.
Orders ==
    {o \in [1..NDatasets -> 1..NDatasets] :
        \A i, j \in 1..NDatasets : o[i] = o[j] => i = j}

\* The data cv of a CoverageData, with the state of a combine at its start.
Combining(cv, hp) ==
    [lines |-> cv.lines, arcs |-> cv.arcs, callers |-> cv.callers,
     heap |-> hp, exc |-> "", removed |-> 0]

\* The files left once the first n of order are removed.
Remaining(files, order, n) ==
    [i \in DOMAIN files \ {order[j] : j \in 1..n} |-> files[i]]

Combined(c, order) ==
    /\ cov' = [lines |-> c.lines, arcs |-> c.arcs, callers |-> c.callers]
    /\ heap' = c.heap
    /\ inputs' = Remaining(inputs, order, c.removed)
    /\ combined' = [done |-> TRUE, files |-> inputs, order |-> order,
                    exc |-> c.exc, removed |-> c.removed]
    /\ UNCHANGED <<tracerVars, file_callers, merges, handling, finder>>

\* CoverageData.combine_parallel_data, which finds the files in some order.
CombineParallelData(order) ==
    /\ ~combined.done
    /\ Combined(CombineFiles(Combining(cov, heap), inputs, order), order)

InitCombine ==
    /\ InitTracer(FALSE, TRUE, FALSE, FALSE, 0)
    /\ heap = << >>
    /\ file_callers = EmptyDict
    /\ merges = NoMerges
    /\ cov = NewCoverageData
    /\ inputs \in [1..NDatasets -> Datasets]
    /\ combined = NotCombined
    /\ handling = NotHandling
    /\ finder = NoFinderCall

NextCombine == \E order \in Orders : CombineParallelData(order)

SpecCombine == InitCombine /\ [][NextCombine]_vars

----------------------------------------------------------------------------
(* coverage/data.py: the methods that change the data of a CoverageData     *)
(* during a run.  Each add_* method is called with the map of one file.     *)

DataFiles == {"mod.py", "tests.py"}

\* The state the methods of CoverageData leave alone.
dataRest == <<tracer, should_trace_cache, settrace, warnings, frames, nevents,
              reported, active_at, scenario, nstops, maxev, asked, file_callers,
              merges, inputs, combined, handling, finder>>

\* The method called last.
Called(method) == [NoEvent EXCEPT !.event = method]

\* CoverageData.add_line_data({filename: linenos})
AddLineData(filename, linenos) ==
    /\ cov' = [cov EXCEPT !.lines = Update(@, filename, linenos)]
    /\ last' = Called("add_line_data")
    /\ UNCHANGED <<heap, dataRest>>

\* CoverageData.add_arc_data({filename: arcs})
AddArcData(filename, arcs) ==
    /\ cov' = [cov EXCEPT !.arcs = Update(@, filename, arcs)]
    /\ last' = Called("add_arc_data")
    /\ UNCHANGED <<heap, dataRest>>

\* CoverageData.add_callers_data({filename: {key: TestFinderResult(None, tests)}}):
\* dict.update stores the object given under the key.
AddCallersData(filename, key, tests) ==
    /\ Len(heap) < MaxObjects
    /\ heap' = Append(heap, TestFinderResult("None", tests))
    /\ cov' = [cov EXCEPT !.callers =
                   Put(@, filename,
                       Put(SetDefault(@, filename), key, Len(heap) + 1))]
    /\ last' = Called("add_callers_data")
    /\ UNCHANGED dataRest

\* CoverageData.erase, of a CoverageData that uses no file.
Erase ==
    /\ cov' = NewCoverageData
    /\ heap' = << >>
    /\ last' = Called("erase")
    /\ UNCHANGED dataRest

InitCoverageData ==
    /\ InitTracer(FALSE, TRUE, FALSE, FALSE, 0)
    /\ heap = << >>
    /\ InitData

NextCoverageData ==
    \/ \E filename \in DataFiles :
          \E linenos \in {{LineKey(10)}, {LineKey(10), LineKey(12)}} :
              AddLineData(filename, linenos)
    \/ \E filename \in DataFiles : AddArcData(filename, {ArcKey(-1, 10)})
    \/ \E filename \in DataFiles : \E test \in Tests :
          AddCallersData(filename, LineKey(10), {test})
    \/ Erase

SpecCoverageData == InitCoverageData /\ [][NextCoverageData]_vars

----------------------------------------------------------------------------
(* The claims about the tracer. *)

\* The names of the tests stored for key k of file f; none when k has no entry.
AttributedTests(f, k) ==
    IF f \in DOMAIN tracer.callers_data /\ k \in DOMAIN tracer.callers_data[f]
    THEN {t.function_name : t \in heap[tracer.callers_data[f][k]].test_methods}
    ELSE {}

\* C1: under events in which every call is matched by a return or by an
\* exception whose missed return the caller's next event corrects, data_stack
\* is as deep as the number of frames called and not yet returned or unwound;
\* it is empty once the outermost frame has returned.
C1_StackDepthIsOpenFrames == Len(tracer.data_stack) = Len(frames)

\* The outermost frame returned in the event that also corrected the missed
\* return of its callee.
C1_Witness ==
    /\ last.event = "return" /\ last.depth = 2
    /\ frames = << >> /\ tracer.data_stack = << >>

\* C2: in branch mode, after call(f), line(f, 10), call(g), exception(g),
\* line(f, 12), return(f), g's file holds the synthesized arc
\* (-1, -firstlineno of g) and f's file holds, of f, exactly (-1, 10), (10, 12)
\* and (12, -firstlineno of f).
C2_MissedReturnScenario ==
    (scenario.step = 6 /\ tracer.arcs) =>
        /\ ArcKey(-1, -CoFirstLineno(scenario.g))
               \in tracer.data[TraceName(scenario.g)]
        /\ tracer.data[TraceName(scenario.f)]
               \ {ArcKey(-1, -CoFirstLineno(scenario.g))}
             = {ArcKey(-1, 10), ArcKey(10, 12),
                ArcKey(12, -CoFirstLineno(scenario.f))}

\* C3: after a return event the tracer's context (file_tracer, cur_file_dict,
\* cur_file_callers_dict, last_line) is the one it had before the matching call.
C3_ReturnRestoresContext ==
    (last.event = "return" /\ last.ret = ReturnOtherwise) =>
        Context(tracer) = last.saved

\* C4: in statement mode every line in a file's line map was reported by a
\* line event of a frame recorded under that file.
C4_OnlyReportedLines ==
    ~tracer.arcs =>
        \A f \in DOMAIN tracer.data : \A k \in tracer.data[f] :
            f \in DOMAIN reported /\ k[1] \in reported[f]

\* C6: no key of a per-file attribution map holds an entry without tests.
C6_NoEmptyAttribution ==
    \A f \in DOMAIN tracer.callers_data : \A k \in DOMAIN tracer.callers_data[f] :
        heap[tracer.callers_data[f][k]].test_methods /= {}

\* A line event merged an attribution without tests: its key is recorded in
\* the line map and absent from the attribution map.
C6_Witness ==
    /\ last.event = "line" /\ HasWhichTests(tracer)
    /\ GetCallersMappedStack(tracer) = {}
    /\ tracer.cur_file_dict \in DOMAIN tracer.data
    /\ \E k \in tracer.data[tracer.cur_file_dict] :
           /\ k[Len(k)] = tracer.last_line
           /\ k \notin DOMAIN tracer.callers_data[tracer.cur_file_dict]

\* C8: the tests attributed to a recorded key are exactly the tests that were
\* running when the key was recorded.
C8_AttributionIsActiveTests ==
    \A f \in DOMAIN active_at : \A k \in DOMAIN active_at[f] :
        AttributedTests(f, k) = active_at[f][k]

\* C9: every call of _trace returns the tracer's own handler.
C9_AlwaysReturnsItself ==
    last.event \in {"call", "line", "return", "exception"} =>
        last.ret = ReturnOtherwise

\* C10: a second stop in a row on the thread that started the tracer leaves
\* the stopped flag, the registered trace functions and the warnings as the
\* first stop left them.
C10_StopTwiceSameAsOnce ==
    (last.event = "stop" /\ last.code = "t1" /\ last.depth >= 2
     /\ last.saved = <<TRUE>>) =>
        <<tracer.stopped, settrace, warnings>> = last.before

\* A step that is a call of stop on thread t.
StopStep(t) == nstops' = nstops + 1 /\ last'.event = "stop" /\ last'.code = t

\* A step that is the handling of an event by _trace.
EventStep == nevents' = nevents + 1

\* C11: with threading configured, a stop on a thread other than the one that
\* called start changes nothing but the stopped flag (the trace functions, the
\* warnings, the data and the stacks stay); and a call of stop that changes
\* the trace function start registered is a call on the thread of start.
C11_ForeignStopOnlySetsFlag ==
    [][/\ (StopStep("t2") /\ tracer.threading /\ tracer.thread = "t1") =>
              /\ tracer' = [tracer EXCEPT !.stopped = TRUE]
              /\ settrace' = settrace /\ warnings' = warnings
              /\ heap' = heap /\ should_trace_cache' = should_trace_cache
       /\ ((\E t \in Threads : StopStep(t)) /\ settrace'["t1"] /= settrace["t1"]) =>
              StopStep("t1")]_vars

\* A stop on the other thread found a started tracer inside a frame and left
\* its trace function registered.
C11_Witness ==
    /\ last.event = "stop" /\ last.code = "t2"
    /\ tracer.threading /\ tracer.thread = "t1" /\ tracer.stopped
    /\ settrace["t1"] = "self._trace" /\ tracer.data_stack /= << >>

\* C12: an event handled once the stopped flag is set leaves the tracer (data,
\* callers_data, the stacks, callers_line, last_line, last_exc_back and every
\* other field), the objects and the cache as they were.
C12_StoppedTracerRecordsNothing ==
    [][(tracer.stopped /\ EventStep) =>
          /\ tracer' = tracer /\ heap' = heap
          /\ should_trace_cache' = should_trace_cache]_vars

\* A line event reached the stopped tracer, which had recorded before.
C12_Witness ==
    /\ tracer.stopped /\ last.event = "line" /\ last.ret = ReturnWhenStopped
    /\ tracer.data /= EmptyDict /\ settrace["t1"] = "self._trace"

\* C13 as stated: a stop on the thread that called start, with a warn callback,
\* warns exactly when the trace function it finds registered is another
\* tool's, and it leaves no trace function registered.
C13_WarnsIffReplaced ==
    (last.event = "stop" /\ last.code = "t1" /\ last.saved = <<TRUE>>
     /\ tracer.warn) =>
        /\ (warnings = last.before[3] + 1) <=> (last.before[2]["t1"] = "other")
        /\ warnings \in {last.before[3], last.before[3] + 1}
        /\ settrace["t1"] = "None"

\* C14 as stated: _trace completes every event without raising an error.
C14_TraceNeverRaises ==
    last.event \in {"call", "line", "return", "exception"} =>
        last.ret /= "raised"

\* The current line map a call event leaves for a frame of a file with the
\* disposition disp.
TrackedAs(disp) == IF disp.trace THEN disp.source_filename ELSE "None"

\* C15: should_trace is called at most once for each filename, the cache holds
\* a decision for exactly the filenames it was called for, a decision in the
\* cache is never replaced or removed, and a call event for a filename in the
\* cache tracks the frame as the cached decision says.
C15_DecisionIsMemoized ==
    /\ [](/\ DOMAIN asked = DOMAIN should_trace_cache
          /\ \A f \in DOMAIN asked : asked[f] = 1)
    /\ [][/\ \A f \in DOMAIN should_trace_cache :
                /\ f \in DOMAIN should_trace_cache'
                /\ should_trace_cache'[f] = should_trace_cache[f]
           /\ (EventStep /\ last'.event = "call"
               /\ CoFilename(last'.code) \in DOMAIN should_trace_cache) =>
                  /\ asked' = asked
                  /\ tracer'.cur_file_dict =
                         TrackedAs(should_trace_cache[CoFilename(last'.code)])]_vars

\* A call event for a file whose decision an earlier call event had cached:
\* a function called a function of its own file.
C15_Witness ==
    /\ last.event = "call" /\ Len(frames) >= 2
    /\ CoFilename(frames[Len(frames)].code) = CoFilename(frames[1].code)
    /\ asked[CoFilename(frames[1].code)] = 1

\* C16: however the tracers of the threads interleave lines 108-112, every
\* entry of the shared cache is should_trace's answer for its filename, and
\* the disposition a tracer goes on with is should_trace's answer for the
\* filename of its frame.
C16_SharedCacheIsClassify ==
    /\ \A f \in DOMAIN should_trace_cache : should_trace_cache[f] = ShouldTrace(f)
    /\ \A t \in Threads :
           handling[t].pc \in {"put", "use"} =>
               handling[t].disp = <<ShouldTrace(handling[t].filename)>>

\* Both tracers missed the cache for one filename, both asked should_trace and
\* both stored its answer.
C16_Witness ==
    /\ \A t \in Threads : handling[t].pc = "use"
    /\ handling["t1"].filename = handling["t2"].filename
    /\ asked[handling["t1"].filename] = 2

\* The current-line records callers_line holds.
CallersLineRecords == {tracer.callers_line[k] : k \in DOMAIN tracer.callers_line}

\* C17 as stated: after a line event in, or the return of, an invocation of a
\* test function, every outer invocation of the same function that has
\* executed a line still has its own current-line record, at its own line.
C17_RecordPerInvocation ==
    (/\ tracer.should_record_callers
     /\ last.event \in {"line", "return"} /\ last.ret = ReturnOtherwise
     /\ IsTestCode(last.code)) =>
        \A i \in 1..Len(frames) :
            (i < last.frame /\ frames[i].code = last.code /\ frames[i].lined) =>
                \E r \in CallersLineRecords :
                    r.function_name = last.code /\ r.line_no = frames[i].lineno

\* C18 as stated: _is_test_method answers true exactly when the function name
\* is 'test' or contains 'test_', or the first argument is an instance of a
\* test case class and the filename is not inside the unittest path.
C18_IsTestMethodExactly ==
    finder.called =>
        (finder.result <=>
            \/ finder.f_info.function_name = "test"
            \/ Occurrences(<<"t", "e", "s", "t", "_">>,
                           Chars(finder.f_info.function_name)) /= {}
            \/ /\ IsTestCaseInstance(finder.frame.first_arg)
               /\ Occurrences(<<"/", "u", "n", "i", "t", "t", "e", "s", "t", "/">>,
                              Chars(finder.f_info.filename)) = {})

\* The frame of the event that this step handles.
EventFrame == Frame(last'.frame, last'.code, 0)

\* The frame of this step's event is of an untracked file.
Untracked == TraceName(last'.code) = "None"

C24_LineMinusOneChangesNothing ==
    [][(EventStep /\ last'.event = "line" /\ last'.ret /= ReturnWhenStopped
        /\ last'.range[1] = -1) =>
          /\ tracer' = Corrected(EventFrame)
          /\ heap' = heap
          /\ tracer.last_exc_back = NoFrame => tracer' = tracer]_vars

\* The plugin answered -1 for a line of a template that had recorded the
\* lines 10..11 before, while a test was running.
C24_Witness ==
    /\ last.event = "line" /\ last.range = <<-1, -1>> /\ last.code = "tmpl"
    /\ tracer.last_line = 11 /\ tracer.callers_stack /= << >>
    /\ tracer.data["page.html"] /= {}

\* The event of this step is handled, without an error, in branch mode in a
\* frame of a tracked file.
BranchStep(event) ==
    /\ EventStep /\ last'.event = event /\ last'.ret = ReturnOtherwise
    /\ tracer.arcs /\ ~Untracked

\* C25 as stated: in branch mode a line event of a tracked frame records the
\* arc from last_line, which is -1 when the frame has recorded no line since
\* its call, to the first line of its range; and the return event of a
\* tracked frame records the arc from last_line to minus the first line of
\* its function in the frame's file.
C25_BranchArcs ==
    [][/\ (BranchStep("line") /\ last'.range[1] /= -1) =>
              /\ ArcKey(Corrected(EventFrame).last_line, last'.range[1])
                     \in tracer'.data[TraceName(last'.code)]
              /\ ~frames[last'.frame].lined => Corrected(EventFrame).last_line = -1
       /\ BranchStep("return") =>
              ArcKey(Corrected(EventFrame).last_line, -CoFirstLineno(last'.code))
                  \in tracer'.data[TraceName(last'.code)]]_vars

\* C26 as stated: a line event of a tracked frame that resolves to the range
\* (from, to), from not -1, adds to the file's map exactly the lines from..to
\* in statement mode and exactly the arc (last_line, from) in branch mode,
\* adds nothing to another file's map, and leaves last_line = to.
C26_RangeRecorded ==
    [][(EventStep /\ last'.event = "line" /\ last'.ret /= ReturnWhenStopped
        /\ ~Untracked /\ last'.range[1] /= -1) =>
          /\ tracer'.data =
                 [Corrected(EventFrame).data EXCEPT ![TraceName(last'.code)] =
                     @ \cup KeysOfLine(Corrected(EventFrame), last'.range)]
          /\ tracer'.last_line = last'.range[2]]_vars

\* The tracer s with the marker of an exception raised in the frame.
Marked(s, frame) ==
    [s EXCEPT !.last_exc_back = frame.f_back,
              !.last_exc_firstlineno = CoFirstLineno(frame.f_code)]

\* C27: an exception event changes only the pending marker, which becomes the
\* parent of the raising frame and the first line of its function: the
\* stacks, callers_line, data, callers_data, last_line and the current maps
\* stay as the correction of a missed return, if one was due, left them, and
\* as they were when none was due; no object is created.
C27_ExceptionOnlyMarks ==
    [][(EventStep /\ last'.event = "exception" /\ last'.ret /= ReturnWhenStopped) =>
          /\ tracer' = Marked(Corrected(EventFrame), EventFrame)
          /\ tracer.last_exc_back = NoFrame => tracer' = Marked(tracer, EventFrame)
          /\ heap' = heap
          /\ last'.ret = ReturnOtherwise]_vars

\* An exception was raised in a tracked frame called by a running test that
\* had recorded a line.
C27_Witness ==
    /\ last.event = "exception" /\ last.frame = 2 /\ Len(frames) = 2
    /\ tracer.last_exc_back = 1
    /\ tracer.last_exc_firstlineno = CoFirstLineno(frames[2].code)
    /\ Len(tracer.data_stack) = 2 /\ tracer.callers_stack /= << >>
    /\ tracer.data["tests.py"] /= {}

\* The event of this step is handled in the caller of the running frame, a
\* tracked frame of a test routine that an exception has unwound without a
\* return event.
UnwoundTest ==
    /\ EventStep /\ last'.ret = ReturnOtherwise /\ tracer.should_record_callers
    /\ frames /= << >> /\ last'.frame = Len(frames) - 1
    /\ IsTestCode(Top(frames).code)

\* C28 as stated: the event after the unwinding of a test routine leaves
\* callers_stack without the entry of the unwound frame (and without the
\* caller's own entry when the event is the return of a test routine), and
\* callers_line without a record for an entry that is no longer on the stack.
C28_MissedReturnPopsTest ==
    [][UnwoundTest =>
          /\ Len(tracer'.callers_stack) =
                 Len(tracer.callers_stack) - 1
                 - (IF last'.event = "return" /\ IsTestCode(last'.code)
                    THEN 1 ELSE 0)
          /\ DOMAIN tracer'.callers_line \subseteq SeqToSet(tracer'.callers_stack)]_vars

\* The functions of the open tracked frames of test routines, in call order.
OpenTests == SelectSeq([i \in 1..Len(frames) |-> frames[i].code], IsTestCode)

\* C29 as stated: with attribution recording on, callers_stack holds, in call
\* order, one entry for each open tracked frame of a test routine and no
\* other entry.
C29_StackIsOpenTests ==
    tracer.should_record_callers =>
        [i \in 1..Len(tracer.callers_stack) |-> tracer.callers_stack[i][1]]
            = OpenTests

\* The tests stored for key k of the file f after this step; none when k has
\* no entry.
StoredAfter(f, k) ==
    IF k \in DOMAIN tracer'.callers_data[f]
    THEN heap'[tracer'.callers_data[f][k]].test_methods ELSE {}

\* The open frames of test routines below the frame of this step's event.
TestsBelow == {i \in 1..(last'.frame - 1) : IsTestCode(frames'[i].code)}

\* The event of this step is a line event, with attribution recording on and
\* a test on callers_stack, that records the keys of its range in a tracked
\* frame.
AttributedLineStep ==
    /\ EventStep /\ last'.event = "line" /\ last'.ret /= ReturnWhenStopped
    /\ tracer.should_record_callers /\ tracer'.callers_stack /= << >>
    /\ ~Untracked /\ last'.range[1] /= -1

\* C30 as stated: a line event in a tracked frame while a test is on
\* callers_stack stores, at every key it records, the current-line record of
\* every test on the stack that has one; callers_line gets or changes a
\* record only at a line event of a frame of the top test's function, the
\* innermost open frame of a test, whose line the record then holds; so a
\* line of a helper leaves callers_line alone and is attributed to the
\* innermost test below it at the line that test is executing.
C30_AttributionOfLine ==
    [][/\ AttributedLineStep =>
              \A k \in KeysOfLine(Corrected(EventFrame), last'.range) :
                  GetCallersMappedStack(tracer')
                      \subseteq StoredAfter(TraceName(last'.code), k)
       /\ (EventStep /\ last'.ret /= ReturnWhenStopped) =>
              \A c \in DOMAIN tracer'.callers_line :
                  (c \notin DOMAIN tracer.callers_line
                   \/ tracer'.callers_line[c] /= tracer.callers_line[c]) =>
                      /\ last'.event = "line" /\ last'.code = c[1]
                      /\ c = Top(tracer'.callers_stack)
                      /\ \A i \in 1..Len(frames') :
                             IsTestCode(frames'[i].code) => i <= last'.frame
                      /\ tracer'.callers_line[c].line_no = Top(frames').lineno
       /\ (AttributedLineStep /\ ~IsTestCode(last'.code)) =>
              /\ tracer'.callers_line = tracer.callers_line
              /\ \A i \in TestsBelow :
                     (/\ \A j \in TestsBelow : j <= i
                      /\ Top(tracer'.callers_stack) \in DOMAIN tracer'.callers_line) =>
                         \A k \in KeysOfLine(Corrected(EventFrame), last'.range) :
                             \E r \in StoredAfter(TraceName(last'.code), k) :
                                 /\ r.function_name = frames'[i].code
                                 /\ r.line_no = frames'[i].lineno]_vars

\* C33 as stated: every key of callers_line is an entry of callers_stack,
\* and every record get_callers_mapped_stack reports is the record of a test
\* routine that an open frame is running.
C33_RecordsOfActiveTests ==
    /\ DOMAIN tracer.callers_line \subseteq SeqToSet(tracer.callers_stack)
    /\ \A r \in GetCallersMappedStack(tracer) :
           \E i \in 1..Len(frames) : frames[i].code = r.function_name

\* What the handler of the event itself does to the length of data_stack:
\* the push of a call (line 104) and the pop of a return (lines 216-218).
Pushes(event) == IF event = "call" THEN 1 ELSE IF event = "return" THEN -1 ELSE 0

\* C34: an event handled while last_exc_back holds a frame pops data_stack
\* once more than the event itself does exactly when its frame is that frame,
\* and leaves last_exc_back clear, or set anew to the parent of its own frame
\* when it is an exception event; the return event of the frame that raised
\* pops once.  Without a pending last_exc_back no event pops more than its own.
C34_MarkerConsumedOnce ==
    [][(EventStep /\ last'.ret /= ReturnWhenStopped) =>
          /\ tracer.last_exc_back /= NoFrame =>
                 /\ Len(tracer'.data_stack) =
                        Len(tracer.data_stack) + Pushes(last'.event)
                        - (IF last'.frame = tracer.last_exc_back THEN 1 ELSE 0)
                 /\ tracer'.last_exc_back =
                        IF last'.event = "exception" THEN last'.frame - 1 ELSE NoFrame
                 /\ (last'.event = "return" /\ last'.frame = tracer.last_exc_back + 1) =>
                        Len(tracer'.data_stack) = Len(tracer.data_stack) - 1
          /\ tracer.last_exc_back = NoFrame =>
                 Len(tracer'.data_stack) = Len(tracer.data_stack) + Pushes(last'.event)]_vars

\* A line event has popped data_stack, as only the correction of a missed
\* return makes it do, and last_exc_back is clear.
C34_Witness ==
    /\ last.event = "line" /\ last.ret = ReturnOtherwise
    /\ Len(tracer.data_stack) = last.depth - 1
    /\ tracer.last_exc_back = NoFrame

----------------------------------------------------------------------------
(* The claims about merge_into_dict. *)

\* A merge of the previous result into the same key leaves the map as it was.
MergeIsIdempotent ==
    merges.again => ViewOf(file_callers, heap) = merges.before

\* After a run of merges into one key the key holds the tests it held before
\* the run and those of every result merged.
RunIsUnion ==
    StoredTests(file_callers, heap, merges.key) = merges.base \cup merges.merged

\* C5 as stated: for any key, merging a result twice is the same as merging
\* it once, and after merging results into a key the key holds exactly the
\* union of what it held and the results.
C5_IdempotentUnionAnyKey ==
    merges.count > 0 => MergeIsIdempotent /\ RunIsUnion

\* C5 (amended): the same for any key that is true in Python (an arc, or a
\* line number other than 0) and results with the line_id of the entry the
\* key holds; any other merge raises ValueError and leaves the map as it was.
C5_IdempotentUnion ==
    merges.count > 0 =>
        /\ MergeIsIdempotent
        /\ merges.clean => RunIsUnion
        /\ IF merges.accepted
           THEN merges.exc = ""
           ELSE merges.exc = "ValueError"
                /\ ViewOf(file_callers, heap) = merges.before

\* Two results were merged into a key that held a test, the second of them
\* twice, and the results added a test to the key.
C5_Witness ==
    /\ merges.count = 3 /\ merges.again /\ merges.clean
    /\ merges.base /= {} /\ ~(merges.merged \subseteq merges.base)
    /\ StoredTests(file_callers, heap, merges.key) = Tests

----------------------------------------------------------------------------
(* The claims about CoverageData. *)

\* The lines, arcs and callers of the data cv, each attribution entry read
\* as its set of tests.
DataView(cv, hp) ==
    [lines |-> cv.lines, arcs |-> cv.arcs,
     callers |-> [f \in DOMAIN cv.callers |-> ViewOf(cv.callers[f], hp)]]

\* What combining the files in the given order from empty data yields.
CombinedView(c) == DataView(c, c.heap)

\* C7 as stated: combining the three datasets in any order yields the same
\* lines, arcs and callers, so the data combined equals what every other
\* order of the same files yields.
C7_CombineAnyOrder ==
    combined.done =>
        \A o \in Orders :
            CombinedView(CombineFiles(Combining(NewCoverageData, << >>),
                                      combined.files, o))
            = DataView(cov, heap)

\* The files of the combine that decode fully, in the order they were found.
WellFormed == SelectSeq(combined.order,
                        LAMBDA i : combined.files[i].malformed = "nothing")

\* What combining only the well-formed files yields.
WellFormedOnly ==
    CombineFiles(Combining(NewCoverageData, << >>), combined.files, WellFormed)

\* C19 as stated: a stored file that cannot be fully decoded is read as empty
\* lines, arcs and callers, and the combine goes on: the data combined is
\* that of the files that decode.
C19_MalformedReadsEmpty ==
    (combined.done /\ WellFormedOnly.exc = "") =>
        /\ \A i \in DOMAIN combined.files :
               combined.files[i].malformed /= "nothing" =>
                   ReadFile(combined.files[i], << >>) = ReadNothing(<< >>)
        /\ combined.exc = ""
        /\ DataView(cov, heap) = CombinedView(WellFormedOnly)

\* The file during whose merge the combine raised.
Rejected == combined.order[combined.removed + 1]

\* What combining the files other than the rejected one yields.
WithoutRejected ==
    CombineFiles(Combining(NewCoverageData, << >>), combined.files,
                 SelectSeq(combined.order, LAMBDA i : i /= Rejected))

\* C20 as stated: when the merge of one input raises, the data combined is
\* that of the other inputs, with nothing of the rejected one.
C20_RejectedInputLeavesOthers ==
    (combined.done /\ combined.exc = "ValueError") =>
        (WithoutRejected.exc = "" =>
            DataView(cov, heap) = CombinedView(WithoutRejected))

\* Every file of the map d is in d2, with at least the keys it has in d.
MapGrew(d, d2) ==
    \A f \in DOMAIN d : f \in DOMAIN d2 /\ d[f] \subseteq d2[f]

\* Every attribution entry of c is in c2, with at least the tests it has in c.
CallersGrew(c, hp, c2, hp2) ==
    \A f \in DOMAIN c :
        /\ f \in DOMAIN c2
        /\ \A k \in DOMAIN c[f] :
               /\ k \in DOMAIN c2[f]
               /\ hp[c[f][k]].test_methods \subseteq hp2[c2[f][k]].test_methods

\* C21 as stated: an event handled by the tracer leaves every line or arc map
\* of data and every stored attribution set a superset of what it was, and
\* every method of CoverageData but erase does so for lines, arcs and callers.
C21_CoverageOnlyGrows ==
    [][/\ EventStep =>
              /\ MapGrew(tracer.data, tracer'.data)
              /\ CallersGrew(tracer.callers_data, heap, tracer'.callers_data, heap')
       /\ (last'.event /= "erase" /\ ~EventStep) =>
              /\ MapGrew(cov.lines, cov'.lines)
              /\ MapGrew(cov.arcs, cov'.arcs)
              /\ CallersGrew(cov.callers, heap, cov'.callers, heap')]_vars

\* The keys the files record, in their item (lines or arcs), for the paths
\* that map to canon.
RecordedKeys(files, item, canon) ==
    UNION {SeqToSet(files[ip[1]][item][ip[2]]) :
              ip \in {jq \in (DOMAIN files) \X Paths :
                          /\ AliasMap(jq[2]) = canon
                          /\ jq[2] \in DOMAIN files[jq[1]][item]}}

\* The tests the files attribute to key k of the paths that map to canon.
RecordedTests(files, canon, k) ==
    UNION {files[ip[1]].objects[files[ip[1]].callers[ip[2]][k]].test_methods :
              ip \in {jq \in (DOMAIN files) \X Paths :
                          /\ AliasMap(jq[2]) = canon
                          /\ jq[2] \in DOMAIN files[jq[1]].callers
                          /\ k \in DOMAIN files[jq[1]].callers[jq[2]]}}

\* The paths recorded in the files only under a name that maps to another.
Unmapped == {p \in Paths : AliasMap(p) /= p}

\* The paths that map to canon and that some file records lines under.
RecordedPaths(files, canon) ==
    {p \in Paths : /\ AliasMap(p) = canon
                   /\ \E i \in DOMAIN files : p \in DOMAIN files[i].lines}

\* C22 as stated: after a combine, which raised nothing, of well-formed files
\* that record one source under two paths, the data has no entry under an
\* unmapped path, and the entry of a canonical path holds the union of the
\* lines, of the arcs and, key by key, of the tests that the files record
\* under the paths that map to it.
C22_CombinedUnderCanonicalPath ==
    (/\ combined.done /\ combined.exc = ""
     /\ \A i \in DOMAIN combined.files : combined.files[i].malformed = "nothing"
     /\ Cardinality(RecordedPaths(combined.files, "mod.py")) = 2) =>
        /\ (DOMAIN cov.lines \cup DOMAIN cov.arcs \cup DOMAIN cov.callers)
               \cap Unmapped = {}
        /\ \A f \in DOMAIN cov.lines :
               cov.lines[f] = RecordedKeys(combined.files, "lines", f)
        /\ \A f \in DOMAIN cov.arcs :
               cov.arcs[f] = RecordedKeys(combined.files, "arcs", f)
        /\ \A f \in DOMAIN cov.callers : \A k \in DOMAIN cov.callers[f] :
               heap[cov.callers[f][k]].test_methods
                   = RecordedTests(combined.files, f, k)

\* C31 as stated: after add_callers_data the test set stored for a key it was
\* given holds every test stored there before and every test of the entry
\* added (the object the call has just put on the heap).
C31_AddCallersIsUnion ==
    [][last'.event = "add_callers_data" =>
          \A f \in DOMAIN cov'.callers : \A k \in DOMAIN cov'.callers[f] :
              cov'.callers[f][k] = Len(heap') =>
                  /\ heap'[Len(heap')].test_methods
                         \subseteq StoredTests(cov'.callers[f], heap', k)
                  /\ f \in DOMAIN cov.callers =>
                         StoredTests(cov.callers[f], heap, k)
                             \subseteq StoredTests(cov'.callers[f], heap', k)]_vars

\* C32 as stated: a merge into one key of a per-file attribution map leaves
\* every other key as it was: held before with the same tests, or not held.
C32_KeysAreIndependent ==
    merges.total > 0 =>
        \A k \in (DOMAIN merges.before \cup DOMAIN file_callers) \ {merges.key} :
            /\ k \in DOMAIN merges.before
            /\ StoredTests(file_callers, heap, k) = merges.before[k]

====
